---------------------------- MODULE Spec2Model ----------------------------
(***************************************************************************)
(* Model of the content-server preferences panel of calibre                *)
(* (src/calibre/gui2/preferences/server.py): the main tab (auth, port,     *)
(* autolaunch, start/stop/test/logs buttons), the user-accounts editor,    *)
(* the advanced options form, the server lifecycle controller and          *)
(* save_changes()/commit().                                                *)
(*                                                                         *)
(* Text is modelled as a sequence of one-character strings, so that        *)
(* strip() is computed and not assumed.                                    *)
(***************************************************************************)
EXTENDS Integers, Sequences, FiniteSets, TLC

(***************************************************************************)
(* Bounds of the model.                                                    *)
(***************************************************************************)
\* number of distinct valid usernames that exist in the universe
MaxUsers == 2

(***************************************************************************)
(* Text helpers.                                                           *)
(***************************************************************************)
IsSpace(c) == c = " "

RECURSIVE LStrip(_)
LStrip(s) == IF s = << >> THEN << >>
             ELSE IF IsSpace(Head(s)) THEN LStrip(Tail(s)) ELSE s

RECURSIVE RStrip(_)
RStrip(s) == IF s = << >> THEN << >>
             ELSE IF IsSpace(s[Len(s)]) THEN RStrip(SubSeq(s, 1, Len(s) - 1)) ELSE s

\* unicode.strip()
Strip(s) == RStrip(LStrip(s))

(***************************************************************************)
(* The user manager (calibre.srv.users) and collation (calibre.utils.icu). *)
(***************************************************************************)
NamePool == << <<"a">>, <<"B">>, <<"c">>, <<"D">> >>

\* the valid usernames of the universe
Usernames == {NamePool[i] : i \in 1..MaxUsers}

\* what can be typed into the username field of the NewUser dialog
UsernameInputs == Usernames \cup {<<" ">> \o NamePool[1] \o <<" ">>, << >>, <<" ">>, <<"/">>}

\* the valid passwords of the universe
Passwords == {<<"p">>}

\* what can be typed into the two password fields of the NewUser dialog: twice the
\* same valid password, or two different ones, nothing, a password that is not ASCII
GoodPasswordInputs == {<<p, p>> : p \in Passwords}
BadPasswordInputs ==
    {<< <<"p">>, <<"q">> >>, << << >>, << >> >>, << <<"U+00E9">>, <<"U+00E9">> >>}
PasswordInputs == GoodPasswordInputs \cup BadPasswordInputs

\* how the NewUser dialog can be filled for a new user: any username with good
\* passwords, a valid username with bad ones
AddInputs ==
    {<<raw, pp[1], pp[2]>> : raw \in UsernameInputs, pp \in GoodPasswordInputs} \cup
    {<<raw, pp[1], pp[2]>> : raw \in Usernames, pp \in BadPasswordInputs}

AsciiChars == {"a", "B", "c", "D", "p", "q", " ", "/"}
UsernameChars == {"a", "B", "c", "D", " "}

\* validate_username(un): an error text, or "" for no error
validate_username(un) ==
    IF \E i \in 1..Len(un) : un[i] \notin UsernameChars
    THEN "invalid characters in username" ELSE ""

\* validate_password(pw): an error text, or "" for no error
validate_password(pw) ==
    IF \E i \in 1..Len(pw) : pw[i] \notin AsciiChars
    THEN "password must be ASCII" ELSE ""

\* create_user_data(pw): a new user record
create_user_data(pw) == [pw |-> pw]

\* primary-strength collation weight of one character: case is ignored,
\* so "a" < "B" < "c" < "D" although "B" < "a" by code point
CharKey(c) ==
    CASE c = "a" -> 1 [] c = "B" -> 2 [] c = "c" -> 3 [] c = "D" -> 4 [] OTHER -> 0

RECURSIVE KeyLeq(_, _)
\* primary_sort_key(x) <= primary_sort_key(y), keys compared lexicographically
KeyLeq(x, y) ==
    IF x = << >> THEN TRUE
    ELSE IF y = << >> THEN FALSE
    ELSE IF CharKey(Head(x)) < CharKey(Head(y)) THEN TRUE
    ELSE IF CharKey(Head(x)) > CharKey(Head(y)) THEN FALSE
    ELSE KeyLeq(Tail(x), Tail(y))

IsSorted(l) == \A i, j \in 1..Len(l) : i < j => KeyLeq(l[i], l[j])

\* code point of one character
CodePoint(c) ==
    CASE c = "a" -> 97 [] c = "B" -> 66 [] c = "c" -> 99 [] c = "D" -> 68
      [] c = " " -> 32 [] c = "/" -> 47 [] OTHER -> 0

\* a bug: sorted(S) without the key, which orders by code point
SortedByCodePoint(S) ==
    CHOOSE l \in [1..Cardinality(S) -> S] :
        /\ \A i, j \in 1..Cardinality(S) : i # j => l[i] # l[j]
        /\ \A i, j \in 1..Cardinality(S) :
              i < j => CodePoint(Head(l[i])) <= CodePoint(Head(l[j]))

\* sorted(S, key=primary_sort_key)
SortedByKey(S) ==
    CHOOSE l \in [1..Cardinality(S) -> S] :
        /\ \A i, j \in 1..Cardinality(S) : i # j => l[i] # l[j]
        /\ IsSorted(l)

\* every user mapping: username -> record
UserMaps == UNION {[D -> {create_user_data(p) : p \in Passwords}] : D \in SUBSET Usernames}

NoUser == << >>

(***************************************************************************)
(* Server options (calibre.srv.opts).                                      *)
(***************************************************************************)
Ports == {8080, 8081}
DefaultPort == 8080
DefaultAuth == FALSE
\* QSpinBox() followed by setRange(1, 65535): the value is clamped to 1
PortMin == 1

NoValue == [t |-> "none", b |-> FALSE, n |-> 0, s |-> << >>]
BoolV(b) == [t |-> "bool", b |-> b, n |-> 0, s |-> << >>]
IntV(n) == [t |-> "int", b |-> FALSE, n |-> n, s |-> << >>]
\* a float, in hundredths
FloatV(h) == [t |-> "float", b |-> FALSE, n |-> h, s |-> << >>]
TextV(s) == [t |-> "text", b |-> FALSE, n |-> 0, s |-> s]


(***************************************************************************)
(* Option widgets of the advanced tab: get() and set(val) of each class.   *)
(* A widget's state is the value its Qt control holds.                     *)
(***************************************************************************)
\* setRange(0, 10000) of Int and Float
SpinMin == 0
SpinMax == 10000
\* a float is kept in hundredths; setDecimals(1) keeps tenths
Hundredths == 100
TenthInHundredths == 10

Clamp(n, lo, hi) == IF n < lo THEN lo ELSE IF n > hi THEN hi ELSE n

\* QDoubleSpinBox rounds the value to its decimals (to the nearest tenth)
RoundToTenth(h) ==
    LET q == h \div TenthInHundredths
        r == h % TenthInHundredths
    IN  IF 2 * r >= TenthInHundredths THEN (q + 1) * TenthInHundredths
        ELSE q * TenthInHundredths

\* bool(val)
Truthy(val) ==
    CASE val.t = "bool" -> val.b
      [] val.t = "int" -> val.n # 0
      [] val.t = "float" -> val.n # 0
      [] val.t = "text" -> val.s # << >>
      [] OTHER -> FALSE

\* Bool.set / Bool.get : the check box holds a boolean
Bool_set(val) == BoolV(Truthy(val))
Bool_get(w) == BoolV(w.b)

\* Int.set / Int.get : setValue(int(val)) clamps to the range
Int_set(val) ==
    IntV(Clamp(IF val.t = "float" THEN val.n \div Hundredths
               ELSE IF val.t = "bool" THEN (IF val.b THEN 1 ELSE 0)
               ELSE val.n, SpinMin, SpinMax))
Int_get(w) == IntV(w.n)

\* Float.set / Float.get : setValue(float(val)) rounds to one decimal and clamps
Float_set(val) ==
    FloatV(Clamp(RoundToTenth(IF val.t = "int" THEN val.n * Hundredths ELSE val.n),
                 SpinMin * Hundredths, SpinMax * Hundredths))
Float_get(w) == FloatV(w.n)

\* Text.set : setText(unicode(val or ''))
Text_set(val) == TextV(IF Truthy(val) /\ val.t = "text" THEN val.s ELSE << >>)
\* Text.get : text().strip() or None
Text_get(w) == IF Strip(w.s) = << >> THEN NoValue ELSE TextV(Strip(w.s))

\* Choices.set : the value when it is a choice, else the first choice
Choices_set(choices, val) ==
    IF val.t = "text" /\ \E i \in 1..Len(choices) : choices[i] = val.s
    THEN TextV(val.s) ELSE TextV(choices[1])
Choices_get(w) == TextV(w.s)

\* a bug: the int test before the bool test (a Python bool is an int)
WidgetClass_int_first(opt) ==
    IF opt.choices # << >> THEN "Choices"
    ELSE IF opt.default.t \in {"int", "bool"} THEN "Int"
    ELSE IF opt.default.t = "float" THEN "Float"
    ELSE "Text"

\* AdvancedTab.__init__ : the widget class of an option
WidgetClass(opt) ==
    IF opt.choices # << >> THEN "Choices"
    ELSE IF opt.default.t = "bool" THEN "Bool"
    ELSE IF opt.default.t = "int" THEN "Int"
    ELSE IF opt.default.t = "float" THEN "Float"
    ELSE "Text"

\* the widget AdvancedTab.__init__ builds for opt: its class, its choices and
\* the state of a freshly constructed control of that class
NewWidget(opt) ==
    [cls |-> WidgetClass(opt), choices |-> opt.choices,
     v |-> CASE WidgetClass(opt) = "Choices" -> TextV(opt.choices[1])
             [] WidgetClass(opt) = "Bool" -> BoolV(FALSE)
             [] WidgetClass(opt) = "Int" -> IntV(SpinMin)
             [] WidgetClass(opt) = "Float" -> FloatV(SpinMin * Hundredths)
             [] OTHER -> TextV(<< >>)]

\* w.set(val): the widget afterwards
WidgetSet(w, val) ==
    [w EXCEPT !.v = CASE w.cls = "Choices" -> Choices_set(w.choices, val)
                      [] w.cls = "Bool" -> Bool_set(val)
                      [] w.cls = "Int" -> Int_set(val)
                      [] w.cls = "Float" -> Float_set(val)
                      [] OTHER -> Text_set(val)]

\* w.get()
WidgetGet(w) ==
    CASE w.cls = "Choices" -> Choices_get(w.v)
      [] w.cls = "Bool" -> Bool_get(w.v)
      [] w.cls = "Int" -> Int_get(w.v)
      [] w.cls = "Float" -> Float_get(w.v)
      [] OTHER -> Text_get(w.v)

\* options['url_prefix'] : a text option without choices, default None
UrlPrefixOpt == [name |-> "url_prefix", default |-> NoValue, choices |-> << >>]

(***************************************************************************)
(* State.                                                                  *)
(***************************************************************************)
VARIABLES
    \* external stores
    server_conf,            \* what server_config() returns: [auth, port, adv]
    stored_users,           \* UserManager().user_data
    config_autolaunch,      \* config['autolaunch_server']
    content_server,         \* gui.content_server
    \* MainTab
    opt_auth, opt_port, opt_autolaunch_server,
    start_server_button, stop_server_button, test_server_button,
    \* AdvancedTab: the option descriptor and the state of its widget
    adv_opt, adv_widget,
    \* Users and User
    user_data, user_list, current_row, username, cpb_enabled,
    \* ConfigWidget
    current_tab, changed,
    stopping_msg,           \* whether the "Stopping" box is open: "shown" or "closed"
    pc, outcome

stores == <<server_conf, stored_users, config_autolaunch>>
main_widgets == <<opt_auth, opt_port, opt_autolaunch_server>>
buttons == <<start_server_button, stop_server_button, test_server_button>>
adv == <<adv_opt, adv_widget>>
users == <<user_data, user_list, current_row, username, cpb_enabled>>
vars == <<server_conf, stored_users, config_autolaunch, content_server,
          opt_auth, opt_port, opt_autolaunch_server,
          start_server_button, stop_server_button, test_server_button,
          adv_opt, adv_widget,
          user_data, user_list, current_row, username, cpb_enabled,
          current_tab, changed, stopping_msg, pc, outcome>>

NoException == ""
Exceptions == {"EADDRINUSE", "EACCES"}

\* gui.content_server is None
NoServer == [exists |-> FALSE, is_running |-> FALSE, exception |-> NoException,
             stop_requested |-> FALSE]
\* a server object just created by gui.start_content_server(check_started=False)
NewServer == [exists |-> TRUE, is_running |-> FALSE, exception |-> NoException,
              stop_requested |-> FALSE]
RunningServer == [NewServer EXCEPT !.is_running = TRUE]

NoUrl == [port |-> 0, prefix |-> << >>]
\* the visible result of the most recent handler: the title (msg) and text (det)
\* of the message box it showed, what it returned or raised (ret), the URL it opened
\* (url), and what save_changes returned when the handler called it (saved)
Out(msg, det, ret) == [msg |-> msg, det |-> det, ret |-> ret, saved |-> "", url |-> NoUrl]
Quiet == Out("", "", "")

\* the user mapping without one username
Without(m, un) == [u \in (DOMAIN m) \ {un} |-> m[u]]
\* the user mapping with one record set
With(m, un, rec) == [u \in (DOMAIN m) \cup {un} |-> IF u = un THEN rec ELSE m[u]]

(***************************************************************************)
(* Construction: the state after ConfigWidget.__init__, before genesis.    *)
(***************************************************************************)
Init ==
    /\ server_conf \in [auth : BOOLEAN, port : Ports, adv : {UrlPrefixOpt.default}]
    /\ stored_users \in UserMaps
    /\ config_autolaunch \in BOOLEAN
    /\ content_server \in {NoServer, RunningServer}
    /\ opt_auth = FALSE
    /\ opt_port = PortMin
    /\ opt_autolaunch_server = FALSE
    /\ start_server_button = TRUE
    /\ stop_server_button = TRUE
    /\ test_server_button = TRUE
    /\ adv_opt = UrlPrefixOpt
    /\ adv_widget = NewWidget(UrlPrefixOpt)
    /\ user_data = << >>
    /\ user_list = << >>
    /\ current_row = 0
    /\ username = NoUser
    /\ cpb_enabled = FALSE
    /\ current_tab = "main"
    /\ changed = FALSE
    /\ stopping_msg = "closed"
    /\ pc = "constructed"
    /\ outcome = Quiet

(***************************************************************************)
(* MainTab.                                                                *)
(***************************************************************************)
\* what update_button_state computes from gui.content_server
is_running_of(cs) == cs.exists /\ cs.is_running

\* a bug: the Test button enabled like the Start button
update_button_state_test_as_start(cs) ==
    /\ start_server_button' = ~is_running_of(cs)
    /\ stop_server_button' = is_running_of(cs)
    /\ test_server_button' = ~is_running_of(cs)

\* MainTab.update_button_state, reading the server cs
update_button_state(cs) ==
    /\ start_server_button' = ~is_running_of(cs)
    /\ stop_server_button' = is_running_of(cs)
    /\ test_server_button' = is_running_of(cs)

\* MainTab.settings
MainTab_settings == [auth |-> opt_auth, port |-> opt_port]

\* AdvancedTab.settings
AdvancedTab_settings == WidgetGet(adv_widget)

\* the settings dict save_changes gathers from the tabs
Settings == [auth |-> MainTab_settings.auth, port |-> MainTab_settings.port,
             adv |-> AdvancedTab_settings]

(***************************************************************************)
(* Users: the list widget and the detail pane.                             *)
(***************************************************************************)
\* User.show_user(username, user_data)
show_user(un) ==
    /\ username' = un
    /\ cpb_enabled' = (un # NoUser)

\* Users.current_item_changed, for the list l, the current row r and the mapping m
current_item_changed(l, r, m) ==
    show_user(IF r = 0 THEN NoUser
              ELSE IF l[r] \notin DOMAIN m THEN NoUser ELSE l[r])

\* Users.genesis
Users_genesis ==
    /\ user_data' = stored_users
    /\ user_list' = SortedByKey(DOMAIN stored_users)
    /\ current_row' = IF DOMAIN stored_users = {} THEN 0 ELSE 1
    /\ current_item_changed(user_list', current_row', user_data')

\* ConfigWidget.genesis: every tab's genesis, then the registered setting is
\* loaded from config; signals emitted meanwhile are not yet connected
genesis ==
    /\ pc = "constructed"
    /\ opt_auth' = server_conf.auth
    /\ opt_port' = server_conf.port
    /\ update_button_state(content_server)
    /\ Users_genesis
    /\ adv_widget' = WidgetSet(adv_widget, server_conf.adv)
    /\ opt_autolaunch_server' = config_autolaunch
    /\ pc' = "idle"
    /\ UNCHANGED <<stores, content_server, adv_opt, current_tab, changed,
                   stopping_msg, outcome>>

(***************************************************************************)
(* Edits of the session. A control can be used only on the visible tab and *)
(* only while no handler is running (pc = "idle").                         *)
(***************************************************************************)
\* the tabs whose controls the panel model uses (the advanced tab has its own
\* specification, AdvSpec)
Tabs == {"main", "users"}

\* QTabWidget: the user shows another tab
select_tab(t) ==
    /\ pc = "idle"
    /\ t # current_tab
    /\ current_tab' = t
    /\ outcome' = Quiet
    /\ UNCHANGED <<stores, content_server, main_widgets, buttons, adv, users,
                   changed, stopping_msg, pc>>

\* MainTab.auth_changed: the auth check box is toggled
auth_changed ==
    /\ pc = "idle"
    /\ current_tab = "main"
    /\ opt_auth' = ~opt_auth
    /\ changed' = TRUE
    /\ outcome' = Quiet
    /\ UNCHANGED <<stores, content_server, opt_port, opt_autolaunch_server, buttons,
                   adv, users, current_tab, stopping_msg, pc>>

\* opt_port.valueChanged: the port is edited
port_changed(p) ==
    /\ pc = "idle"
    /\ current_tab = "main"
    /\ p # opt_port
    /\ opt_port' = p
    /\ changed' = TRUE
    /\ outcome' = Quiet
    /\ UNCHANGED <<stores, content_server, opt_auth, opt_autolaunch_server, buttons,
                   adv, users, current_tab, stopping_msg, pc>>

\* opt_autolaunch_server, a setting registered with ConfigWidgetBase, is toggled
autolaunch_changed ==
    /\ pc = "idle"
    /\ current_tab = "main"
    /\ opt_autolaunch_server' = ~opt_autolaunch_server
    /\ changed' = TRUE
    /\ outcome' = Quiet
    /\ UNCHANGED <<stores, content_server, opt_auth, opt_port, buttons,
                   adv, users, current_tab, stopping_msg, pc>>

\* ConfigWidget.restore_defaults: the registered setting and every tab that has
\* restore_defaults go back to the defaults
restore_defaults ==
    /\ pc = "idle"
    /\ opt_autolaunch_server' = FALSE
    /\ opt_auth' = DefaultAuth
    /\ opt_port' = DefaultPort
    /\ adv_widget' = WidgetSet(adv_widget, adv_opt.default)
    /\ changed' = TRUE
    /\ outcome' = Quiet
    /\ UNCHANGED <<stores, content_server, buttons, adv_opt, users, current_tab,
                   stopping_msg, pc>>

(***************************************************************************)
(* The user-accounts tab.                                                  *)
(***************************************************************************)
\* a bug: no test for a username that exists already
NewUser_accept_no_exists_test(m, readonly, raw, p1, p2) ==
    LET un == Strip(raw) IN
    IF ~readonly /\ un = << >> THEN "Empty username"
    ELSE IF ~readonly /\ validate_username(un) # "" THEN "Username is not valid"
    ELSE IF p1 # p2 THEN "Password do not match"
    ELSE IF p1 = << >> THEN "Empty password"
    ELSE IF validate_password(p1) # "" THEN "Invalid password"
    ELSE ""

\* NewUser.accept: the title of the error box it shows, or "" when the dialog is
\* accepted. m is the mapping, readonly whether the username field is read-only
\* (change password), raw the username field, p1 and p2 the password fields
NewUser_accept(m, readonly, raw, p1, p2) ==
    LET un == Strip(raw) IN
    IF ~readonly /\ un = << >> THEN "Empty username"
    ELSE IF ~readonly /\ un \in DOMAIN m THEN "Username already exists"
    ELSE IF ~readonly /\ validate_username(un) # "" THEN "Username is not valid"
    ELSE IF p1 # p2 THEN "Password do not match"
    ELSE IF p1 = << >> THEN "Empty password"
    ELSE IF validate_password(p1) # "" THEN "Invalid password"
    ELSE ""

\* a bug: the working mapping is the user manager's own mapping, not a copy
add_user_shared_mapping(raw, p1, p2) ==
    /\ pc = "idle"
    /\ current_tab = "users"
    /\ LET err == NewUser_accept(user_data, FALSE, raw, p1, p2)
           un == Strip(raw)
       IN  IF err = ""
           THEN /\ user_data' = With(user_data, un, create_user_data(p1))
                /\ user_list' = <<un>> \o user_list
                /\ current_row' = 1
                /\ show_user(un)
                /\ changed' = TRUE
                /\ outcome' = Out("Add new user", "", "Accepted")
           ELSE /\ outcome' = Out("Add new user", "", "Rejected")
                /\ UNCHANGED <<users, changed>>
    /\ stored_users' = user_data'
    /\ UNCHANGED <<server_conf, config_autolaunch, content_server, main_widgets,
                   buttons, adv, current_tab, stopping_msg, pc>>

\* Users.add_user: the NewUser dialog is filled with (raw, p1, p2) and OK is
\* pressed; a dialog that showed an error is then cancelled
add_user(raw, p1, p2) ==
    /\ pc = "idle"
    /\ current_tab = "users"
    /\ LET err == NewUser_accept(user_data, FALSE, raw, p1, p2)
           un == Strip(raw)
       IN  IF err = ""
           THEN /\ user_data' = With(user_data, un, create_user_data(p1))
                /\ user_list' = <<un>> \o user_list
                /\ current_row' = 1
                /\ show_user(un)
                /\ changed' = TRUE
                /\ outcome' = Out("Add new user", "", "Accepted")
           ELSE /\ outcome' = Out("Add new user", "", "Rejected")
                /\ UNCHANGED <<users, changed>>
    /\ UNCHANGED <<stores, content_server, main_widgets, buttons, adv,
                   current_tab, stopping_msg, pc>>

\* the list without its row r
TakeItem(l, r) == SubSeq(l, 1, r - 1) \o SubSeq(l, r + 1, Len(l))

\* a bug: the item is taken out of the list but its record is not popped
remove_user_keeps_record ==
    /\ pc = "idle"
    /\ current_tab = "users"
    /\ IF current_row # 0
       THEN /\ user_list' = TakeItem(user_list, current_row)
            /\ user_data' = user_data
            /\ current_row' \in IF Len(user_list) = 1 THEN {0} ELSE 1..(Len(user_list) - 1)
            /\ current_item_changed(user_list', current_row', user_data')
            /\ changed' = TRUE
       ELSE UNCHANGED <<users, changed>>
    /\ outcome' = Quiet
    /\ UNCHANGED <<stores, content_server, main_widgets, buttons, adv,
                   current_tab, stopping_msg, pc>>

\* Users.remove_user: the current item is taken out of the list (Qt then makes a
\* remaining item the current one), its record is popped and the detail pane
\* is refreshed
remove_user ==
    /\ pc = "idle"
    /\ current_tab = "users"
    /\ IF current_row # 0
       THEN /\ user_list' = TakeItem(user_list, current_row)
            /\ user_data' = Without(user_data, user_list[current_row])
            /\ current_row' \in IF Len(user_list) = 1 THEN {0} ELSE 1..(Len(user_list) - 1)
            /\ current_item_changed(user_list', current_row', user_data')
            /\ changed' = TRUE
       ELSE UNCHANGED <<users, changed>>
    /\ outcome' = Quiet
    /\ UNCHANGED <<stores, content_server, main_widgets, buttons, adv,
                   current_tab, stopping_msg, pc>>

\* User.change_password: the NewUser dialog for the shown user is filled with
\* (p1, p2) and OK is pressed; a dialog that showed an error is then cancelled
change_password(p1, p2) ==
    /\ pc = "idle"
    /\ current_tab = "users"
    /\ cpb_enabled
    /\ LET err == NewUser_accept(user_data, TRUE, username, p1, p2)
       IN  IF err = ""
           THEN /\ user_data' = [user_data EXCEPT ![username].pw = p1]
                /\ changed' = TRUE
                /\ outcome' = Out("Change password", "", "Accepted")
           ELSE /\ outcome' = Out("Change password", "", "Rejected")
                /\ UNCHANGED <<user_data, changed>>
    /\ UNCHANGED <<stores, content_server, main_widgets, buttons, adv,
                   user_list, current_row, username, cpb_enabled,
                   current_tab, stopping_msg, pc>>

\* user_list.currentItemChanged: the user makes row r the current one
select_user(r) ==
    /\ pc = "idle"
    /\ current_tab = "users"
    /\ r \in 1..Len(user_list)
    /\ r # current_row
    /\ current_row' = r
    /\ current_item_changed(user_list, r, user_data)
    /\ outcome' = Quiet
    /\ UNCHANGED <<stores, content_server, main_widgets, buttons, adv,
                   user_data, user_list, current_tab, changed, stopping_msg, pc>>

(***************************************************************************)
(* save_changes and commit.                                                *)
(***************************************************************************)
\* a bug: no test of auth against the user mapping
save_changes_unchecked ==
    [ret |-> TRUE, msg |-> "", tab |-> current_tab,
     autolaunch |-> opt_autolaunch_server, conf |-> Settings,
     stored |-> user_data]

\* a bug: ConfigWidgetBase.commit is called before the test
save_changes_late_test ==
    IF Settings.auth /\ DOMAIN user_data = {}
    THEN [ret |-> FALSE, msg |-> "No users specified", tab |-> "users",
          autolaunch |-> opt_autolaunch_server, conf |-> server_conf,
          stored |-> stored_users]
    ELSE [ret |-> TRUE, msg |-> "", tab |-> current_tab,
          autolaunch |-> opt_autolaunch_server, conf |-> Settings,
          stored |-> user_data]

\* ConfigWidget.save_changes: what it returns (ret), the error box it shows (msg),
\* the tab it leaves current and what the three stores hold afterwards:
\* ConfigWidgetBase.commit writes the registered setting, change_settings the
\* settings, and the user manager gets the user mapping
save_changes ==
    IF Settings.auth /\ DOMAIN user_data = {}
    THEN [ret |-> FALSE, msg |-> "No users specified", tab |-> "users",
          autolaunch |-> config_autolaunch, conf |-> server_conf,
          stored |-> stored_users]
    ELSE [ret |-> TRUE, msg |-> "", tab |-> current_tab,
          autolaunch |-> opt_autolaunch_server, conf |-> Settings,
          stored |-> user_data]

\* the effect of a save_changes call whose result is r
Saved(r) ==
    /\ config_autolaunch' = r.autolaunch
    /\ server_conf' = r.conf
    /\ stored_users' = r.stored
    /\ current_tab' = r.tab

\* ConfigWidget.commit
commit ==
    /\ pc = "idle"
    /\ Saved(save_changes)
    /\ outcome' = IF save_changes.ret
                  THEN [Out("Restart needed", "", "False") EXCEPT !.saved = "True"]
                  ELSE [Out(save_changes.msg, "", "AbortCommit") EXCEPT !.saved = "False"]
    /\ UNCHANGED <<content_server, main_widgets, buttons, adv, users,
                   changed, stopping_msg, pc>>

\* the preferences dialog is cancelled: the panel is destroyed without commit
cancel ==
    /\ pc = "idle"
    /\ pc' = "closed"
    /\ opt_auth' = FALSE
    /\ opt_port' = PortMin
    /\ opt_autolaunch_server' = FALSE
    /\ start_server_button' = TRUE
    /\ stop_server_button' = TRUE
    /\ test_server_button' = TRUE
    /\ adv_widget' = NewWidget(adv_opt)
    /\ user_data' = << >>
    /\ user_list' = << >>
    /\ current_row' = 0
    /\ username' = NoUser
    /\ cpb_enabled' = FALSE
    /\ current_tab' = "main"
    /\ changed' = FALSE
    /\ stopping_msg' = "closed"
    /\ outcome' = Quiet
    /\ UNCHANGED <<stores, content_server, adv_opt>>

(***************************************************************************)
(* The server lifecycle.                                                   *)
(***************************************************************************)
\* a bug: the start request is issued before save_changes is called
start_server_request_first ==
    \/ /\ pc = "idle"
       /\ current_tab = "main"
       /\ start_server_button
       /\ content_server' = NewServer
       /\ pc' = "start_saved"
       /\ outcome' = Quiet
       /\ UNCHANGED <<stores, current_tab>>
    \/ /\ pc = "start_saved"
       /\ Saved(save_changes)
       /\ pc' = IF save_changes.ret THEN "start_wait" ELSE "idle"
       /\ outcome' = [Out(save_changes.msg, "", "") EXCEPT
                         !.saved = IF save_changes.ret THEN "True" ELSE "False"]
       /\ UNCHANGED content_server

\* ConfigWidget.start_server up to the start request: save_changes, and when it
\* is accepted gui.start_content_server(check_started=False). The two calls are
\* two steps: "start_saved" is the point between them
start_server ==
    \/ /\ pc = "idle"
       /\ current_tab = "main"
       /\ start_server_button
       /\ Saved(save_changes)
       /\ pc' = IF save_changes.ret THEN "start_saved" ELSE "idle"
       /\ outcome' = [Out(save_changes.msg, "", "") EXCEPT
                         !.saved = IF save_changes.ret THEN "True" ELSE "False"]
       /\ UNCHANGED content_server
    \/ /\ pc = "start_saved"
       /\ content_server' = NewServer
       /\ pc' = "start_wait"
       /\ UNCHANGED <<stores, current_tab, outcome>>

\* the Start button is pressed, or start_server goes on after save_changes
start_server_clicked ==
    /\ start_server
    /\ UNCHANGED <<main_widgets, buttons, adv, users, changed, stopping_msg>>

\* the polling loop of start_server: one time.sleep(0.1) while the server is
\* neither running nor failed
start_server_sleep ==
    /\ pc = "start_wait"
    /\ ~content_server.is_running /\ content_server.exception = NoException
    /\ UNCHANGED vars

\* a bug: start_server goes on without waiting for the server
start_server_finish_no_wait ==
    /\ pc = "start_wait"
    /\ IF content_server.exception # NoException
       THEN /\ outcome' = [Out("Failed to start content server",
                               content_server.exception, "") EXCEPT !.saved = "True"]
            /\ UNCHANGED buttons
       ELSE /\ outcome' = [Out("", "", "started") EXCEPT !.saved = "True"]
            /\ update_button_state(content_server)
    /\ pc' = "idle"
    /\ UNCHANGED <<stores, content_server, main_widgets, adv, users, current_tab,
                   changed, stopping_msg>>

\* start_server once the loop has ended: the error box and return, or
\* update_button_state
start_server_finish ==
    /\ pc = "start_wait"
    /\ content_server.is_running \/ content_server.exception # NoException
    /\ IF content_server.exception # NoException
       THEN /\ outcome' = [Out("Failed to start content server",
                               content_server.exception, "") EXCEPT !.saved = "True"]
            /\ UNCHANGED buttons
       ELSE /\ outcome' = [Out("", "", "started") EXCEPT !.saved = "True"]
            /\ update_button_state(content_server)
    /\ pc' = "idle"
    /\ UNCHANGED <<stores, content_server, main_widgets, adv, users, current_tab,
                   changed, stopping_msg>>

\* ConfigWidget.stop_server: server.stop(), the "Stopping" box, and the timer
\* that will call check_exited
stop_server ==
    /\ pc = "idle"
    /\ current_tab = "main"
    /\ stop_server_button
    /\ content_server.exists
    /\ content_server' = [content_server EXCEPT !.stop_requested = TRUE]
    /\ stopping_msg' = "shown"
    /\ pc' = "stop_wait"
    /\ outcome' = Out("Stopping", "", "")
    /\ UNCHANGED <<stores, main_widgets, buttons, adv, users, current_tab, changed>>

\* a bug: check_exited does not test is_running
check_exited_no_test ==
    /\ pc = "stop_wait"
    /\ content_server' = NoServer
    /\ update_button_state(content_server')
    /\ stopping_msg' = "closed"
    /\ pc' = "idle"
    /\ UNCHANGED <<stores, main_widgets, adv, users, current_tab, changed, outcome>>

\* ConfigWidget.check_exited, called by the timer: the timer is set again while
\* the server is running; else the server reference is cleared, the buttons
\* are updated and the "Stopping" box is accepted
check_exited ==
    /\ pc = "stop_wait"
    /\ IF is_running_of(content_server)
       THEN UNCHANGED <<content_server, buttons, stopping_msg, pc>>
       ELSE /\ content_server' = NoServer
            /\ update_button_state(content_server')
            /\ stopping_msg' = "closed"
            /\ pc' = "idle"
    /\ UNCHANGED <<stores, main_widgets, adv, users, current_tab, changed, outcome>>

\* ConfigWidget.test_server: the URL handed to open_url
test_server ==
    /\ pc = "idle"
    /\ current_tab = "main"
    /\ test_server_button
    /\ outcome' = [Out("", "", "open_url") EXCEPT
                      !.url = [port |-> opt_port, prefix |-> Strip(adv_widget.v.s)]]
    /\ UNCHANGED <<stores, content_server, main_widgets, buttons, adv, users,
                   current_tab, changed, stopping_msg, pc>>

\* ConfigWidget.view_server_logs: a dialog shows the two logs
view_server_logs ==
    /\ pc = "idle"
    /\ current_tab = "main"
    /\ outcome' = Quiet
    /\ UNCHANGED <<stores, content_server, main_widgets, buttons, adv, users,
                   current_tab, changed, stopping_msg, pc>>

(***************************************************************************)
(* The server object (calibre.srv.embedded): it answers a start request by *)
(* running or by an exception, and a stop request by not running.          *)
(***************************************************************************)
server_started ==
    /\ content_server.exists
    /\ ~content_server.is_running
    /\ content_server.exception = NoException
    /\ ~content_server.stop_requested
    /\ content_server' = [content_server EXCEPT !.is_running = TRUE]
    /\ UNCHANGED <<stores, main_widgets, buttons, adv, users, current_tab, changed,
                   stopping_msg, pc, outcome>>

server_failed(e) ==
    /\ content_server.exists
    /\ ~content_server.is_running
    /\ content_server.exception = NoException
    /\ ~content_server.stop_requested
    /\ content_server' = [content_server EXCEPT !.exception = e]
    /\ UNCHANGED <<stores, main_widgets, buttons, adv, users, current_tab, changed,
                   stopping_msg, pc, outcome>>

server_exited ==
    /\ content_server.exists
    /\ content_server.is_running
    /\ content_server.stop_requested
    /\ content_server' = [content_server EXCEPT !.is_running = FALSE]
    /\ UNCHANGED <<stores, main_widgets, buttons, adv, users, current_tab, changed,
                   stopping_msg, pc, outcome>>

(***************************************************************************)
(* The panel.                                                              *)
(***************************************************************************)
Next ==
    \/ genesis
    \/ \E t \in Tabs : select_tab(t)
    \/ auth_changed
    \/ \E p \in Ports : port_changed(p)
    \/ autolaunch_changed
    \/ restore_defaults
    \/ \E in \in AddInputs : add_user(in[1], in[2], in[3])
    \/ remove_user
    \/ \E pp \in PasswordInputs : change_password(pp[1], pp[2])
    \/ \E r \in 1..MaxUsers : select_user(r)
    \/ commit
    \/ cancel
    \/ start_server_clicked
    \/ start_server_sleep
    \/ start_server_finish
    \/ stop_server
    \/ check_exited
    \/ test_server
    \/ view_server_logs
    \/ server_started
    \/ \E e \in Exceptions : server_failed(e)
    \/ server_exited

Spec == Init /\ [][Next]_vars

\* the panel with the timer of stop_server: a QTimer.singleShot that is pending
\* fires, so check_exited runs as long as it has something to do
FairSpec == Spec /\ WF_vars(check_exited)

(***************************************************************************)
(* The advanced tab on its own: one option descriptor drawn from a bounded *)
(* set, the widget AdvancedTab.__init__ builds for it, and genesis, edits, *)
(* restore_defaults and the settings property on that widget. pc is the    *)
(* last of these that ran.                                                 *)
(***************************************************************************)
AdvTexts == {<< >>, <<" ">>, <<"a">>, <<" ", "a">>, <<"a", " ">>}
AdvInts == {-1, 0, 5, 10000, 10001}
\* floats in hundredths: -0.5, 0.0, 0.25, 1.5, 120.0, 10000.0, 10000.1
AdvFloats == {-50, 0, 25, 150, 12000, 1000000, 1000010}
AdvChoiceList == << <<"a">>, <<"b">> >>

\* option descriptors: a default of each type without choices, and a choice list
AdvOpts ==
    {[name |-> "opt", default |-> d, choices |-> << >>] :
        d \in {BoolV(b) : b \in BOOLEAN} \cup {IntV(n) : n \in AdvInts}
              \cup {FloatV(h) : h \in AdvFloats} \cup {NoValue}
              \cup {TextV(t) : t \in AdvTexts}}
    \cup {[name |-> "opt", default |-> TextV(AdvChoiceList[i]), choices |-> AdvChoiceList] :
             i \in 1..Len(AdvChoiceList)}

\* what the user can put into the control of widget w
WidgetEdits(w) ==
    CASE w.cls = "Choices" -> {TextV(w.choices[i]) : i \in 1..Len(w.choices)}
      [] w.cls = "Bool" -> {BoolV(b) : b \in BOOLEAN}
      [] w.cls = "Int" -> {IntV(n) : n \in AdvInts \cap (SpinMin..SpinMax)}
      [] w.cls = "Float" ->
            {FloatV(h) : h \in {x \in AdvFloats : /\ x >= SpinMin * Hundredths
                                                  /\ x <= SpinMax * Hundredths
                                                  /\ x % TenthInHundredths = 0}}
      [] OTHER -> {TextV(t) : t \in AdvTexts}

\* what server_config() can hold for the option: what a widget of its class returns
AdvStored(opt) ==
    {WidgetGet([NewWidget(opt) EXCEPT !.v = e]) : e \in WidgetEdits(NewWidget(opt))}
    \cup (IF opt.choices # << >> THEN {TextV(<<"z">>)} ELSE {})

AdvInit ==
    /\ adv_opt \in AdvOpts
    /\ server_conf \in {[auth |-> DefaultAuth, port |-> DefaultPort, adv |-> v] :
                           v \in AdvStored(adv_opt)}
    /\ adv_widget = NewWidget(adv_opt)
    /\ stored_users = << >>
    /\ config_autolaunch = FALSE
    /\ content_server = NoServer
    /\ opt_auth = FALSE
    /\ opt_port = PortMin
    /\ opt_autolaunch_server = FALSE
    /\ start_server_button = TRUE
    /\ stop_server_button = TRUE
    /\ test_server_button = TRUE
    /\ user_data = << >>
    /\ user_list = << >>
    /\ current_row = 0
    /\ username = NoUser
    /\ cpb_enabled = FALSE
    /\ current_tab = "advanced"
    /\ changed = FALSE
    /\ stopping_msg = "closed"
    /\ pc = "constructed"
    /\ outcome = Quiet

panel == <<stored_users, config_autolaunch, content_server, main_widgets, buttons,
           users, current_tab, stopping_msg, outcome>>

\* AdvancedTab.genesis: the widget is set from server_config()
AdvancedTab_genesis ==
    /\ pc = "constructed"
    /\ adv_widget' = WidgetSet(adv_widget, server_conf.adv)
    /\ pc' = "genesis"
    /\ UNCHANGED <<panel, server_conf, adv_opt, changed>>

\* the user edits the control: changed_signal is emitted
AdvancedTab_edit(e) ==
    /\ pc # "constructed"
    /\ e # adv_widget.v
    /\ adv_widget' = [adv_widget EXCEPT !.v = e]
    /\ changed' = TRUE
    /\ pc' = "edited"
    /\ UNCHANGED <<panel, server_conf, adv_opt>>

\* AdvancedTab.restore_defaults
AdvancedTab_restore_defaults ==
    /\ pc # "constructed"
    /\ adv_widget' = WidgetSet(adv_widget, adv_opt.default)
    /\ changed' = TRUE
    /\ pc' = "defaults"
    /\ UNCHANGED <<panel, server_conf, adv_opt>>

\* AdvancedTab.settings, handed to change_settings
AdvancedTab_save ==
    /\ pc # "constructed"
    /\ server_conf' = [server_conf EXCEPT !.adv = AdvancedTab_settings]
    /\ pc' = "saved"
    /\ UNCHANGED <<panel, adv, changed>>

AdvNext ==
    \/ AdvancedTab_genesis
    \/ \E e \in WidgetEdits(adv_widget) : AdvancedTab_edit(e)
    \/ AdvancedTab_restore_defaults
    \/ AdvancedTab_save

AdvSpec == AdvInit /\ [][AdvNext]_vars

(***************************************************************************)
(* The claims.                                                             *)
(***************************************************************************)
\* save_changes found auth on and no user
NoUsersForAuth == opt_auth /\ DOMAIN user_data = {}

\* C1: a handler's save_changes call returned False exactly when the gathered
\* settings had auth on and the working user mapping was empty; when it returned
\* True the persisted settings are the gathered settings and the persisted user
\* mapping is the working mapping.
C1_SaveRejectedIffAuthWithoutUsers ==
    outcome.saved # "" =>
        /\ (outcome.saved = "False") <=> NoUsersForAuth
        /\ outcome.saved = "True" => server_conf = Settings /\ stored_users = user_data

\* C1: a commit was accepted with auth on and at least one user, and both stores
\* hold what the panel holds
C1_Witness ==
    /\ outcome.saved = "True"
    /\ outcome.ret = "False"
    /\ opt_auth
    /\ DOMAIN user_data # {}
    /\ stored_users = user_data
    /\ server_conf = Settings

\* C2: a commit with auth on and no user raises AbortCommit, and a step that ends
\* in AbortCommit is one with auth on and no user that changes none of the
\* persisted settings, the persisted user mapping and the registered setting.
C2_AbortedCommitWritesNothing ==
    [][/\ outcome'.ret = "AbortCommit" => NoUsersForAuth /\ UNCHANGED stores
       /\ NoUsersForAuth /\ commit => outcome'.ret = "AbortCommit"]_vars

\* C2: a commit was aborted while the port and the registered setting had edits
\* that were not persisted
C2_Witness ==
    /\ outcome.ret = "AbortCommit"
    /\ NoUsersForAuth
    /\ opt_port # server_conf.port
    /\ opt_autolaunch_server # config_autolaunch
    /\ ~server_conf.auth

\* the Start button is pressed
StartPressed == pc = "idle" /\ pc' # "closed" /\ start_server_clicked

\* a start request is issued to the server object
StartRequested == content_server' = NewServer /\ content_server # NewServer

\* C3: Start pressed with auth on and no user: the save is rejected, the handler
\* ends without a start request and the users tab is the current one; and every
\* start request is issued after the settings, the user mapping and the
\* registered setting were persisted.
C3_StartSavesBeforeRequest ==
    [][/\ NoUsersForAuth /\ StartPressed =>
             /\ outcome'.saved = "False"
             /\ pc' = "idle"
             /\ content_server' = content_server
             /\ current_tab' = "users"
       /\ ~NoUsersForAuth /\ StartPressed => pc' = "start_saved" /\ ~StartRequested
       /\ StartRequested =>
             /\ pc = "start_saved"
             /\ ~NoUsersForAuth
             /\ server_conf = Settings
             /\ stored_users = user_data
             /\ config_autolaunch = opt_autolaunch_server]_vars

\* C3: Start was pressed with auth on and no user: rejected, no server object,
\* the users tab is shown
C3_Witness ==
    /\ outcome.saved = "False"
    /\ outcome.ret = ""
    /\ outcome.msg = "No users specified"
    /\ NoUsersForAuth
    /\ pc = "idle"
    /\ current_tab = "users"
    /\ content_server = NoServer

\* the buttons follow the server state
ButtonsFollowServer ==
    /\ start_server_button <=> ~is_running_of(content_server)
    /\ stop_server_button <=> is_running_of(content_server)
    /\ test_server_button <=> is_running_of(content_server)

\* C4 as claimed: in every state of the open panel after genesis, Start is enabled
\* only when the server is not running, Stop and Test only when it is running.
C4_Original ==
    pc \in {"idle", "start_saved", "start_wait", "stop_wait"} =>
        /\ start_server_button => ~is_running_of(content_server)
        /\ stop_server_button => is_running_of(content_server)
        /\ test_server_button => is_running_of(content_server)

\* C4 amended: whenever no start and no stop is in progress, Start is enabled
\* exactly when the server is not running and Stop and Test exactly when it is
\* running (a server that changes its state only in answer to a request).
C4_ButtonsFollowServerWhenIdle == pc = "idle" => ButtonsFollowServer

\* C4: a start has failed and the panel is idle with a server object that is
\* not running
C4_Witness ==
    /\ pc = "idle"
    /\ content_server.exists
    /\ content_server.exception # NoException
    /\ start_server_button
    /\ ~stop_server_button

\* C5 as claimed: no step but a commit changes the persisted settings or the
\* persisted user mapping.
C5_Original == [][UNCHANGED <<server_conf, stored_users>> \/ commit]_vars

\* C5 amended: no step but a commit and a press of Start changes the persisted
\* settings, the persisted user mapping or the registered setting; Start persists
\* them as commit does.
C5_OnlyCommitAndStartPersist ==
    [][UNCHANGED stores \/ commit \/ StartPressed]_vars

\* C5: the session has added a user and edited the auth option, and nothing of it
\* is persisted
C5_Witness ==
    /\ pc = "idle"
    /\ changed
    /\ outcome.ret = "Accepted"
    /\ DOMAIN user_data # DOMAIN stored_users
    /\ opt_auth # server_conf.auth

\* C6: Stop issues the stop request and shows the "Stopping" box; while the
\* server is running the poll goes on with the box shown and the server
\* reference kept; the box goes away only when the server is found not running,
\* with the reference cleared, Start enabled and Stop and Test disabled; and once
\* the server is not running the box is dismissed in the end.
C6_StopWaitsForExit ==
    /\ [][/\ pc = "idle" /\ pc' = "stop_wait" =>
                /\ is_running_of(content_server)
                /\ content_server'.stop_requested
                /\ stopping_msg' = "shown"
          /\ pc = "stop_wait" /\ is_running_of(content_server) =>
                /\ pc' = "stop_wait"
                /\ stopping_msg' = "shown"
                /\ content_server'.exists
          /\ stopping_msg = "shown" /\ stopping_msg' # "shown" =>
                /\ ~is_running_of(content_server)
                /\ stopping_msg' = "closed"
                /\ content_server' = NoServer
                /\ pc' = "idle"
                /\ start_server_button'
                /\ ~stop_server_button'
                /\ ~test_server_button']_vars
    /\ (pc = "stop_wait" /\ ~is_running_of(content_server))
          ~> (pc = "idle" /\ stopping_msg = "closed")

\* C6: a stop has completed: the box is dismissed, the reference cleared, Start
\* enabled
C6_Witness ==
    /\ pc = "idle"
    /\ stopping_msg = "closed"
    /\ outcome.msg = "Stopping"
    /\ content_server = NoServer
    /\ start_server_button
    /\ ~stop_server_button

\* C7: start_server leaves its polling loop only when the server is running or
\* has an exception; with an exception it shows the error box with the exception
\* text and leaves Start enabled and Stop and Test disabled; else Start is
\* disabled and Stop and Test are enabled.
C7_StartWaitsForServer ==
    [][pc = "start_wait" /\ pc' # "start_wait" =>
          /\ content_server.is_running \/ content_server.exception # NoException
          /\ pc' = "idle"
          /\ IF content_server.exception # NoException
             THEN /\ outcome'.msg = "Failed to start content server"
                  /\ outcome'.det = content_server.exception
                  /\ start_server_button'
                  /\ ~stop_server_button'
                  /\ ~test_server_button'
             ELSE /\ ~start_server_button'
                  /\ stop_server_button'
                  /\ test_server_button']_vars

\* C7: a start has failed with EACCES, which the error box shows
C7_Witness ==
    /\ pc = "idle"
    /\ outcome.msg = "Failed to start content server"
    /\ outcome.det = "EACCES"
    /\ content_server.exception = "EACCES"
    /\ start_server_button
    /\ ~test_server_button

\* the inputs the claim says add rejects
AddMustBeRejected(raw, p1, p2) ==
    \/ Strip(raw) = << >>
    \/ Strip(raw) \in DOMAIN user_data
    \/ validate_username(Strip(raw)) # ""
    \/ p1 # p2
    \/ p1 = << >>
    \/ validate_password(p1) # ""

\* C8: an add with an empty, existing or invalid username, or with passwords that
\* differ, are empty or invalid, is never accepted, and an add that is rejected
\* leaves the working mapping, the list and the dirty flag as they were.
C8_RejectedAddChangesNothing ==
    [][outcome'.msg = "Add new user" =>
          IF outcome'.ret = "Accepted"
          THEN \A in \in AddInputs :
                  ~(AddMustBeRejected(in[1], in[2], in[3]) /\ add_user(in[1], in[2], in[3]))
          ELSE /\ outcome'.ret = "Rejected"
               /\ user_data' = user_data
               /\ user_list' = user_list
               /\ changed' = changed]_vars

\* C8: an add was rejected in a session that has users and is not dirty
C8_Witness ==
    /\ outcome = Out("Add new user", "", "Rejected")
    /\ DOMAIN user_data # {}
    /\ ~changed

\* C9 as claimed: the list of the open panel is in collation order.
C9_Original == pc = "idle" => IsSorted(user_list)

\* C9 amended: genesis fills the list in collation order; an add puts the new
\* username at the top of the list, wherever it collates; every other step keeps
\* a list that is in collation order in collation order.
C9_SortedAtGenesisAddOnTop ==
    [][/\ pc = "constructed" => IsSorted(user_list')
       /\ Len(user_list') > Len(user_list) /\ pc = "idle" =>
             /\ user_list' = <<Head(user_list')>> \o user_list
             /\ Head(user_list') \notin DOMAIN user_data
             /\ Head(user_list') \in DOMAIN user_data'
       /\ Len(user_list') <= Len(user_list) /\ IsSorted(user_list) =>
             IsSorted(user_list')]_vars

\* C9: an add has put "B" on top of "a"
C9_Witness ==
    /\ pc = "idle"
    /\ user_list = << <<"B">>, <<"a">> >>
    /\ ~IsSorted(user_list)

\* the control the claim names for a default value
KindOfDefault(d) ==
    CASE d.t = "bool" -> "Bool" [] d.t = "int" -> "Int" [] d.t = "float" -> "Float"
      [] OTHER -> "Text"

\* C10 as claimed: without a choice list the control follows the type of the
\* default, and get() after set(default) returns the default, whatever it is.
C10_Original ==
    adv_opt.choices = << >> =>
        /\ adv_widget.cls = KindOfDefault(adv_opt.default)
        /\ pc = "defaults" => WidgetGet(adv_widget) = adv_opt.default

\* the defaults that set and get give back: a bool, an int in 0..10000, a float in
\* 0..10000 with at most one decimal, None, a text that is not empty and has no
\* space around it
RoundTrips(d) ==
    CASE d.t = "bool" -> TRUE
      [] d.t = "int" -> d.n >= SpinMin /\ d.n <= SpinMax
      [] d.t = "float" -> /\ d.n >= SpinMin * Hundredths
                          /\ d.n <= SpinMax * Hundredths
                          /\ d.n % TenthInHundredths = 0
      [] d.t = "text" -> d.s # << >> /\ Strip(d.s) = d.s
      [] OTHER -> TRUE

\* C10 amended: without a choice list the control follows the type of the default
\* (bool: toggle, int: integer in 0..10000, float: decimal in 0..10000 with one
\* decimal, else text); get() after set(default) returns the default when it
\* is a bool, an int or a float with at most one decimal in 0..10000, None, or a
\* text with no space around it that is not empty; an empty or blank text default
\* comes back as None.
C10_KindByTypeRoundTripInRange ==
    adv_opt.choices = << >> =>
        /\ adv_widget.cls = KindOfDefault(adv_opt.default)
        /\ adv_widget.cls = "Int" =>
              adv_widget.v.n >= SpinMin /\ adv_widget.v.n <= SpinMax
        /\ adv_widget.cls = "Float" =>
              /\ adv_widget.v.n >= SpinMin * Hundredths
              /\ adv_widget.v.n <= SpinMax * Hundredths
              /\ adv_widget.v.n % TenthInHundredths = 0
        /\ pc = "defaults" /\ RoundTrips(adv_opt.default) =>
              WidgetGet(adv_widget) = adv_opt.default
        /\ pc = "defaults" /\ adv_opt.default.t = "text" /\ Strip(adv_opt.default.s) = << >> =>
              WidgetGet(adv_widget) = NoValue

\* C10: restore_defaults ran on the decimal control of a float default, after an
\* edit, and get() returns the default
C10_Witness ==
    /\ pc = "defaults"
    /\ changed
    /\ adv_opt.choices = << >>
    /\ adv_opt.default = FloatV(12000)
    /\ adv_widget.cls = "Float"
    /\ WidgetGet(adv_widget) = adv_opt.default
    /\ server_conf.adv # adv_opt.default

\* the usernames the list shows
ListedUsernames == {user_list[i] : i \in 1..Len(user_list)}

\* C11: from genesis until the panel is closed, whatever adds, removes, password
\* changes and selection changes were made, the list shows every key of the
\* working mapping exactly once and nothing else, the detail pane shows no
\* username or a key of the working mapping, and the change-password button is
\* enabled exactly when a username is shown.
C11_ListShowsKeysPaneShowsKey ==
    pc \notin {"constructed", "closed"} =>
        /\ ListedUsernames = DOMAIN user_data
        /\ Len(user_list) = Cardinality(DOMAIN user_data)
        /\ username = NoUser \/ username \in DOMAIN user_data
        /\ cpb_enabled <=> username # NoUser

\* C11: of the stored users "a" and "B" one was removed and added again, which
\* put it on top of the list, and then the other row was selected
C11_Witness ==
    /\ pc = "idle"
    /\ DOMAIN stored_users = {<<"a">>, <<"B">>}
    /\ changed
    /\ user_list = << <<"B">>, <<"a">> >>
    /\ current_row = 2
    /\ username = <<"a">>
    /\ cpb_enabled

==========================================================================
